---------------------------- MODULE Spec2Model ----------------------------
(***************************************************************************)
(* Model of the signal-generation core of the SP500 technical-indicators   *)
(* monitor: EnhancedSiegelStrategy (src/src/enhanced_siegel.py).           *)
(*                                                                         *)
(* Floating-point values are modelled as exact extended rationals: a       *)
(* number is a pair <<n, d>> in lowest terms with d > 0, +inf is <<1, 0>>, *)
(* -inf is <<-1, 0>> and NaN (pandas' "undefined") is <<0, 0>>.  The       *)
(* arithmetic follows IEEE-754 for the special values (x/0 = +-inf,        *)
(* 0/0 = NaN, every comparison with NaN is false); rounding is not         *)
(* modelled.  Prices are positive.                                         *)
(***************************************************************************)
EXTENDS Integers, Sequences, FiniteSets, TLC

VARIABLES
    config,        \* self.config of the strategy instance
    data,          \* the price series the caller holds (sequence of bars)
    result,        \* what the last run_strategy call returned (or raised)
    signal_value,  \* argument of a direct calculate_position_size call
    position,      \* value returned by that call
    called,        \* whether that call has returned
    call,          \* the last method called on the instance and its return
    main,          \* one execution of main() and the position history file
    config_file    \* the [Strategy] section of the file load_config reads

vars == <<config, data, result, signal_value, position, called,
          call, main, config_file>>

-----------------------------------------------------------------------------
(* Evaluation helpers: Bind(x, F) is F(x) with x evaluated once.           *)

Bind(x, F(_)) == CHOOSE v \in { F(y) : y \in {x} } : TRUE

Bind2(x1, x2, F(_, _)) ==
    CHOOSE v \in { F(y1, y2) : y1 \in {x1}, y2 \in {x2} } : TRUE

-----------------------------------------------------------------------------
(* Extended rational arithmetic (float64 without rounding).                *)

NaN == <<0, 0>>
PosInf == <<1, 0>>
NegInf == <<-1, 0>>

Abs(n) == IF n < 0 THEN -n ELSE n

Sign(n) == IF n > 0 THEN 1 ELSE IF n < 0 THEN -1 ELSE 0

RECURSIVE GCD(_, _)
GCD(a, b) == IF b = 0 THEN a ELSE Bind(a % b, LAMBDA r : GCD(b, r))

\* the value n/d, normalised
Rat(n, d) ==
    Bind2(n, d, LAMBDA a, b :
        IF b = 0 THEN <<Sign(a), 0>>
        ELSE Bind(GCD(Abs(a), Abs(b)), LAMBDA g :
                 IF b < 0 THEN <<(-a) \div g, (-b) \div g>>
                 ELSE <<a \div g, b \div g>>))

Num(n) == <<n, 1>>

IsNaN(x) == x = NaN
IsInf(x) == Bind(x, LAMBDA a : a[2] = 0 /\ a[1] # 0)
Defined(x) == x # NaN

Neg(x) == Bind(x, LAMBDA a : <<-a[1], a[2]>>)

Add(x, y) ==
    Bind2(x, y, LAMBDA a, b :
        IF IsNaN(a) \/ IsNaN(b) THEN NaN
        ELSE IF IsInf(a) /\ IsInf(b) THEN (IF a = b THEN a ELSE NaN)
        ELSE Rat(a[1] * b[2] + b[1] * a[2], a[2] * b[2]))

Sub(x, y) == Add(x, Neg(y))

Mul(x, y) ==
    Bind2(x, y, LAMBDA a, b :
        IF IsNaN(a) \/ IsNaN(b) THEN NaN
        ELSE Rat(a[1] * b[1], a[2] * b[2]))

Div(x, y) ==
    Bind2(x, y, LAMBDA a, b :
        IF IsNaN(a) \/ IsNaN(b) THEN NaN
        ELSE IF b[1] < 0 THEN Rat(-(a[1] * b[2]), a[2] * (-b[1]))
        ELSE Rat(a[1] * b[2], a[2] * b[1]))

\* x < y, x <= y, ... : false as soon as an operand is NaN
Lt(x, y) ==
    Bind2(x, y, LAMBDA a, b :
        /\ ~IsNaN(a) /\ ~IsNaN(b)
        /\ IF a[2] = 0 /\ b[2] = 0 THEN a[1] < b[1]
           ELSE IF a[2] = 0 THEN a[1] < 0
           ELSE IF b[2] = 0 THEN b[1] > 0
           ELSE a[1] * b[2] < b[1] * a[2])

Gt(x, y) == Lt(y, x)
Ge(x, y) == Bind2(x, y, LAMBDA a, b : ~IsNaN(a) /\ ~IsNaN(b) /\ ~Lt(a, b))
Le(x, y) == Ge(y, x)

AbsNum(x) == Bind(x, LAMBDA a : <<Abs(a[1]), a[2]>>)

-----------------------------------------------------------------------------
(* Configuration: EnhancedSiegelStrategy.__init__                           *)

default_config ==
    [ ma_long |-> 45, ma_short |-> 20, rsi_period |-> 14,
      macd_fast |-> 12, macd_slow |-> 26, macd_signal |-> 9,
      adx_period |-> 14, atr_period |-> 14,
      atr_multiplier |-> Rat(5, 2),
      signal_threshold |-> Rat(50, 100),
      strong_signal |-> Rat(75, 100),
      very_strong_signal |-> Rat(90, 100),
      weak_signal |-> Rat(65, 100),
      trend_weight |-> Rat(40, 100),
      slope_weight |-> Rat(25, 100),
      momentum_weight |-> Rat(20, 100),
      environment_weight |-> Rat(15, 100) ]

\* self.config = default_config.copy(); self.config.update(user):
\* the user's keys replace the defaults, the other keys keep them
MergeConfig(user) ==
    [k \in DOMAIN default_config |->
        IF k \in DOMAIN user THEN user[k] ELSE default_config[k]]

-----------------------------------------------------------------------------
(* Position sizing: calculate_position_size                                *)

\* the same cascade with the weak band's test written <= instead of <
calculate_position_size_weak_inclusive(cfg, s) ==
    IF Ge(s, cfg.very_strong_signal) THEN Rat(14, 10)
    ELSE IF Ge(s, cfg.strong_signal) THEN Rat(12, 10)
    ELSE IF Ge(s, cfg.signal_threshold)
         THEN (IF Le(s, cfg.weak_signal) THEN Rat(8, 10) ELSE Num(1))
    ELSE Num(0)

\* the same cascade with the two tiers of the nested band swapped
calculate_position_size_swapped(cfg, s) ==
    IF Ge(s, cfg.very_strong_signal) THEN Rat(14, 10)
    ELSE IF Ge(s, cfg.strong_signal) THEN Rat(12, 10)
    ELSE IF Ge(s, cfg.signal_threshold)
         THEN (IF Lt(s, cfg.weak_signal) THEN Num(1) ELSE Rat(8, 10))
    ELSE Num(0)

\* the same cascade with the fall-through tier returning a half position
calculate_position_size_half(cfg, s) ==
    IF Ge(s, cfg.very_strong_signal) THEN Rat(14, 10)
    ELSE IF Ge(s, cfg.strong_signal) THEN Rat(12, 10)
    ELSE IF Ge(s, cfg.signal_threshold)
         THEN (IF Lt(s, cfg.weak_signal) THEN Rat(8, 10) ELSE Num(1))
    ELSE Rat(5, 10)

calculate_position_size(cfg, s) ==
    IF Ge(s, cfg.very_strong_signal) THEN Rat(14, 10)
    ELSE IF Ge(s, cfg.strong_signal) THEN Rat(12, 10)
    ELSE IF Ge(s, cfg.signal_threshold)
         THEN (IF Lt(s, cfg.weak_signal) THEN Rat(8, 10) ELSE Num(1))
    ELSE Num(0)

-----------------------------------------------------------------------------
(* pandas / numpy column operations used by the strategy.  A column is a   *)
(* sequence of numbers; row k of the model is row k-1 (iloc) of the frame. *)

RECURSIVE Tabulate(_, _)
\* the column <<F(1), ..., F(n)>>
Tabulate(F(_), n) ==
    IF n = 0 THEN <<>> ELSE Append(Tabulate(F, n - 1), F(n))

Col(df, name) == Bind(df, LAMBDA f : Tabulate(LAMBDA k : f[k][name], Len(f)))

\* Series.shift(n) and Series.diff(n)
Shift(col, n) ==
    Bind(col, LAMBDA c :
        Tabulate(LAMBDA k : IF k - n >= 1 THEN c[k - n] ELSE NaN, Len(c)))

Diff(col, n) ==
    Bind(col, LAMBDA c :
        Tabulate(LAMBDA k : IF k - n >= 1 THEN Sub(c[k], c[k - n]) ELSE NaN,
                 Len(c)))

RECURSIVE SumRange(_, _, _)
SumRange(col, lo, hi) ==
    IF lo > hi THEN Num(0) ELSE Add(SumRange(col, lo, hi - 1), col[hi])

RECURSIVE MaxRange(_, _, _)
MaxRange(col, lo, hi) ==
    IF lo = hi THEN col[hi]
    ELSE Bind(MaxRange(col, lo, hi - 1), LAMBDA m :
             IF Gt(col[hi], m) THEN col[hi] ELSE m)

RECURSIVE MinRange(_, _, _)
MinRange(col, lo, hi) ==
    IF lo = hi THEN col[hi]
    ELSE Bind(MinRange(col, lo, hi - 1), LAMBDA m :
             IF Lt(col[hi], m) THEN col[hi] ELSE m)

\* Series.rolling(window=w) with the default min_periods = w: a row has a
\* value only when its whole trailing window exists and holds no NaN
WindowFull(col, w, k) ==
    /\ k >= w
    /\ \A j \in (k - w + 1)..k : ~IsNaN(col[j])

RollingMean(col, w) ==
    Bind(col, LAMBDA c :
        Tabulate(LAMBDA k : IF WindowFull(c, w, k)
                            THEN Div(SumRange(c, k - w + 1, k), Num(w))
                            ELSE NaN, Len(c)))

RollingMax(col, w) ==
    Bind(col, LAMBDA c :
        Tabulate(LAMBDA k : IF WindowFull(c, w, k)
                            THEN MaxRange(c, k - w + 1, k)
                            ELSE NaN, Len(c)))

RollingMin(col, w) ==
    Bind(col, LAMBDA c :
        Tabulate(LAMBDA k : IF WindowFull(c, w, k)
                            THEN MinRange(c, k - w + 1, k)
                            ELSE NaN, Len(c)))

\* Series.ewm(span=span, adjust=False).mean(), ignore_na=False: the running
\* state is the weighted mean and the weight of the history; a NaN row
\* carries the mean forward and decays the weight of the history
EwmStep(state, value, alpha) ==
    Bind2(state, value, LAMBDA st, cur :
        IF IsNaN(st.weighted)
        THEN [weighted |-> cur, old_wt |-> st.old_wt]
        ELSE Bind(Mul(st.old_wt, Sub(Num(1), alpha)), LAMBDA decayed :
                 IF IsNaN(cur)
                 THEN [weighted |-> st.weighted, old_wt |-> decayed]
                 ELSE [weighted |-> Div(Add(Mul(decayed, st.weighted),
                                            Mul(alpha, cur)),
                                        Add(decayed, alpha)),
                       old_wt |-> Num(1)]))

RECURSIVE EwmPrefix(_, _, _)
EwmPrefix(col, alpha, n) ==
    IF n = 0 THEN <<>>
    ELSE IF n = 1 THEN <<[weighted |-> col[1], old_wt |-> Num(1)]>>
    ELSE Bind(EwmPrefix(col, alpha, n - 1), LAMBDA prev :
             Append(prev, EwmStep(prev[n - 1], col[n], alpha)))

EwmMean(col, span) ==
    Bind2(col, Rat(2, span + 1), LAMBDA c, alpha :
        Bind(EwmPrefix(c, alpha, Len(c)), LAMBDA states :
            Tabulate(LAMBDA k : states[k].weighted, Len(c))))

\* Series.clip(0, 1): NaN stays NaN
Clip01(value) ==
    Bind(value, LAMBDA x :
        IF IsNaN(x) THEN NaN
        ELSE IF Lt(x, Num(0)) THEN Num(0)
        ELSE IF Gt(x, Num(1)) THEN Num(1)
        ELSE x)

\* DataFrame.max(axis=1) of three columns, skipna: the largest of the values
\* that are not NaN, NaN when all three are
RowMax3(a, b, c) ==
    Bind(IF IsNaN(a) THEN b ELSE IF Gt(b, a) THEN b ELSE a, LAMBDA m1 :
        IF IsNaN(m1) THEN c ELSE IF Gt(c, m1) THEN c ELSE m1)

-----------------------------------------------------------------------------
(* Literal windows of the source.                                          *)

SlopeLag == 4   \* MA_slope: diff(4) / shift(4)
AdxLag == 2     \* ADX proxy: diff(2) / shift(2)

\* The trailing window of the three min-max normalisations.  The source's
\* literal is 52 rows; the model runs the same rolling min/max over a
\* shorter window so that normalised values occur in short series.
NormWindow == 3

-----------------------------------------------------------------------------
(* calculate_indicators                                                    *)

\* RSI left undefined wherever the average loss is zero
rsi_value_undefined_without_loss(avg_gain, avg_loss) ==
    IF avg_loss = Num(0) THEN NaN
    ELSE Bind(Div(avg_gain, avg_loss), LAMBDA rs :
             Sub(Num(100), Div(Num(100), Add(Num(1), rs))))

\* RSI with a zero average loss forced to 100 whatever the average gain
rsi_value_guarded(avg_gain, avg_loss) ==
    IF avg_loss = Num(0) THEN Num(100)
    ELSE Bind(Div(avg_gain, avg_loss), LAMBDA rs :
             Sub(Num(100), Div(Num(100), Add(Num(1), rs))))

\* rs = avg_gain / avg_loss; RSI = 100 - (100 / (1 + rs)), in float
\* arithmetic: x / 0 is +inf for x > 0 and NaN for x = 0, 100 / inf is 0
rsi_value(avg_gain, avg_loss) ==
    Bind(Div(avg_gain, avg_loss), LAMBDA rs :
        Sub(Num(100), Div(Num(100), Add(Num(1), rs))))

calculate_indicators(cfg, data_frame) ==
    Bind(data_frame, LAMBDA d :
    Bind([ close |-> Col(d, "close"),
           high |-> Col(d, "high"),
           low |-> Col(d, "low") ], LAMBDA p :
    Bind([ ma_long |-> RollingMean(p.close, cfg.ma_long),
           ma_short |-> RollingMean(p.close, cfg.ma_short),
           delta |-> Diff(p.close, 1),
           ema_fast |-> EwmMean(p.close, cfg.macd_fast),
           ema_slow |-> EwmMean(p.close, cfg.macd_slow),
           prev_close |-> Shift(p.close, 1) ], LAMBDA q :
    Bind([ ma_diff4 |-> Diff(q.ma_short, SlopeLag),
           ma_shift4 |-> Shift(q.ma_short, SlopeLag),
           gain |-> Tabulate(LAMBDA k : IF Gt(q.delta[k], Num(0))
                                        THEN q.delta[k] ELSE Num(0), Len(d)),
           loss |-> Tabulate(LAMBDA k : Neg(IF Lt(q.delta[k], Num(0))
                                            THEN q.delta[k] ELSE Num(0)),
                             Len(d)),
           macd |-> Tabulate(LAMBDA k : Sub(q.ema_fast[k], q.ema_slow[k]),
                             Len(d)),
           tr |-> Tabulate(LAMBDA k :
                      Bind([ tr1 |-> AbsNum(Sub(p.high[k], p.low[k])),
                             tr2 |-> AbsNum(Sub(p.high[k], q.prev_close[k])),
                             tr3 |-> AbsNum(Sub(p.low[k], q.prev_close[k])) ],
                           LAMBDA t : RowMax3(t.tr1, t.tr2, t.tr3)), Len(d)),
           ma_diff2 |-> Diff(q.ma_short, AdxLag),
           ma_shift2 |-> Shift(q.ma_short, AdxLag) ], LAMBDA r :
    Bind([ avg_gain |-> RollingMean(r.gain, cfg.rsi_period),
           avg_loss |-> RollingMean(r.loss, cfg.rsi_period),
           macd_signal |-> EwmMean(r.macd, cfg.macd_signal),
           atr |-> RollingMean(r.tr, cfg.atr_period),
           adx |-> RollingMean(
                       Tabulate(LAMBDA k :
                           AbsNum(Mul(Div(r.ma_diff2[k], r.ma_shift2[k]),
                                      Num(100))), Len(d)),
                       cfg.adx_period) ], LAMBDA t :
        Tabulate(LAMBDA k :
            d[k] @@
            [ MA_long |-> q.ma_long[k],
              MA_short |-> q.ma_short[k],
              MA_slope |-> Div(r.ma_diff4[k], r.ma_shift4[k]),
              RSI |-> rsi_value(t.avg_gain[k], t.avg_loss[k]),
              MACD |-> r.macd[k],
              MACD_signal |-> t.macd_signal[k],
              MACD_hist |-> Sub(r.macd[k], t.macd_signal[k]),
              ATR |-> t.atr[k],
              ADX |-> t.adx[k],
              Volatility |-> Mul(Div(t.atr[k], p.close[k]), Num(100)) ],
            Len(d)))))))

-----------------------------------------------------------------------------
(* generate_signals                                                        *)

\* (x - min) / (max - min) over the trailing NormWindow rows of the column
MinMaxNorm(col) ==
    Bind(col, LAMBDA c :
    Bind2(RollingMax(c, NormWindow), RollingMin(c, NormWindow),
          LAMBDA mx, mn :
        Tabulate(LAMBDA k : Div(Sub(c[k], mn[k]), Sub(mx[k], mn[k])),
                 Len(c))))

\* the comparison written >= instead of >
trend_signal_inclusive(close, ma_long) ==
    IF Ge(close, ma_long) THEN Num(1) ELSE Num(0)

\* np.where(close > MA_long, 1.0, 0.0)
trend_signal(close, ma_long) ==
    IF Gt(close, ma_long) THEN Num(1) ELSE Num(0)

\* the weighted sum clipped to [0, 1] before it is sized
composite_signal_clipped(cfg, trend, slope, momentum, environment) ==
    Clip01(Add(Add(Add(Mul(cfg.trend_weight, trend),
                       Mul(cfg.slope_weight, slope)),
                   Mul(cfg.momentum_weight, momentum)),
               Mul(cfg.environment_weight, environment)))

\* the weighted sum with undefined terms skipped (a nansum)
composite_signal_skipna(cfg, trend, slope, momentum, environment) ==
    Add(Add(Add(IF IsNaN(trend) THEN Num(0)
                ELSE Mul(cfg.trend_weight, trend),
                IF IsNaN(slope) THEN Num(0)
                ELSE Mul(cfg.slope_weight, slope)),
            IF IsNaN(momentum) THEN Num(0)
            ELSE Mul(cfg.momentum_weight, momentum)),
        IF IsNaN(environment) THEN Num(0)
        ELSE Mul(cfg.environment_weight, environment))

\* the weighted sum of the four sub-signals, added left to right
composite_signal(cfg, trend, slope, momentum, environment) ==
    Add(Add(Add(Mul(cfg.trend_weight, trend),
                Mul(cfg.slope_weight, slope)),
            Mul(cfg.momentum_weight, momentum)),
        Mul(cfg.environment_weight, environment))

\* the two halves added without their 0.5 weights
momentum_signal_unweighted(rsi_norm, macd_norm) ==
    Add(rsi_norm, macd_norm)

\* 0.5 * rsi_norm + 0.5 * macd_norm
momentum_signal(rsi_norm, macd_norm) ==
    Add(Mul(Rat(5, 10), rsi_norm), Mul(Rat(5, 10), macd_norm))

\* 0.6 * adx_norm + 0.4 * vol_norm
environment_signal(adx_norm, vol_norm) ==
    Add(Mul(Rat(6, 10), adx_norm), Mul(Rat(4, 10), vol_norm))

generate_signals(cfg, frame) ==
    Bind(frame, LAMBDA df :
    Bind([ slope |-> MinMaxNorm(Col(df, "MA_slope")),
           macd |-> MinMaxNorm(Col(df, "MACD_hist")),
           vol |-> MinMaxNorm(Col(df, "Volatility")) ], LAMBDA norm :
        Tabulate(LAMBDA k :
          Bind([ trend_signal |-> trend_signal(df[k].close, df[k].MA_long),
                 slope_signal |-> Clip01(norm.slope[k]),
                 rsi_norm |-> Div(df[k].RSI, Num(100)),
                 macd_norm |-> Clip01(norm.macd[k]),
                 adx_norm |-> Clip01(Div(df[k].ADX, Num(100))),
                 vol_norm |-> Clip01(Sub(Num(1), norm.vol[k])) ], LAMBDA s :
          Bind([ momentum_signal |->
                     momentum_signal(s.rsi_norm, s.macd_norm),
                 environment_signal |->
                     environment_signal(s.adx_norm, s.vol_norm) ], LAMBDA m :
              df[k] @@ s @@ m @@
              [ composite_signal |->
                    composite_signal(cfg, s.trend_signal, s.slope_signal,
                                     m.momentum_signal,
                                     m.environment_signal) ])),
          Len(df))))

-----------------------------------------------------------------------------
(* calculate_stop_loss and the stop-loss loop of run_strategy               *)

\* Python's max(a, b): b when b > a, otherwise a (so a NaN first argument
\* is returned, a NaN second argument is skipped)
PyMax(x, y) == Bind2(x, y, LAMBDA a, b : IF Gt(b, a) THEN b ELSE a)

IntMax(a, b) == IF b > a THEN b ELSE a

calculate_stop_loss(cfg, row) ==
    Bind2(Sub(row.close, Mul(row.ATR, cfg.atr_multiplier)), row.MA_short,
          LAMBDA atr_stop, ma_stop : PyMax(atr_stop, ma_stop))

\* the guard taken from the availability of the indicators, not the index
stop_loss_at_by_availability(cfg, df, k) ==
    IF IsNaN(df[k].MA_long) \/ IsNaN(df[k].ADX) THEN NaN
    ELSE calculate_stop_loss(cfg, df[k])

\* one iteration of the loop: i = k - 1 is the 0-based row index
stop_loss_at(cfg, df, k) ==
    IF k - 1 < IntMax(cfg.ma_long, cfg.adx_period) THEN NaN
    ELSE calculate_stop_loss(cfg, df[k])

-----------------------------------------------------------------------------
(* calculate_stats                                                         *)

\* DataFrame.dropna(subset=['position'])
DropNaPosition(df) == SelectSeq(df, LAMBDA row : ~IsNaN(row.position))

\* Series.ffill(), as applied by pct_change (fill_method='pad')
RECURSIVE FFill(_, _)
FFill(col, n) ==
    IF n = 0 THEN <<>>
    ELSE Bind(FFill(col, n - 1), LAMBDA prev :
             Append(prev, IF IsNaN(col[n]) /\ n > 1 THEN prev[n - 1]
                          ELSE col[n]))

PctChange(col) ==
    Bind(col, LAMBDA c :
    Bind(FFill(c, Len(c)), LAMBDA filled :
        Tabulate(LAMBDA k : IF k = 1 THEN NaN
                            ELSE Sub(Div(filled[k], filled[k - 1]), Num(1)),
                 Len(c))))

\* Series.cumprod(), skipna: NaN rows stay NaN and are left out of the product
RECURSIVE CumProd(_, _)
CumProd(col, n) ==
    IF n = 0 THEN [out |-> <<>>, acc |-> Num(1)]
    ELSE Bind(CumProd(col, n - 1), LAMBDA prev :
             IF IsNaN(col[n])
             THEN [out |-> Append(prev.out, NaN), acc |-> prev.acc]
             ELSE Bind(Mul(prev.acc, col[n]), LAMBDA product :
                      [out |-> Append(prev.out, product), acc |-> product]))

\* the return of a bar weighted by the position of the same row
EquityCurve_unshifted(clean_df) ==
    Bind(clean_df, LAMBDA clean :
    Bind2(PctChange(Col(clean, "close")), Col(clean, "position"),
          LAMBDA ret, pos :
    Bind(Tabulate(LAMBDA k : Add(Num(1), Mul(ret[k], pos[k])),
                  Len(clean)), LAMBDA factor :
    Bind(CumProd(factor, Len(clean)).out, LAMBDA prod :
        Tabulate(LAMBDA k : IF IsNaN(prod[k]) THEN Num(1) ELSE prod[k],
                 Len(clean))))))

\* the equity curve: cumprod of 1 + pct_change(close) * position.shift(1),
\* then fillna(1)
EquityCurve(clean_df) ==
    Bind(clean_df, LAMBDA clean :
    Bind2(PctChange(Col(clean, "close")), Shift(Col(clean, "position"), 1),
          LAMBDA ret, prev_pos :
    Bind(Tabulate(LAMBDA k : Add(Num(1), Mul(ret[k], prev_pos[k])),
                  Len(clean)), LAMBDA factor :
    Bind(CumProd(factor, Len(clean)).out, LAMBDA prod :
        Tabulate(LAMBDA k : IF IsNaN(prod[k]) THEN Num(1) ELSE prod[k],
                 Len(clean))))))

\* position.diff() != 0 without the fillna(0): the first row's NaN change
\* compares unequal to 0 and is selected
TradeRows_no_fillna(clean_df) ==
    Bind(clean_df, LAMBDA clean :
    Bind(Diff(Col(clean, "position"), 1), LAMBDA change :
        SelectSeq(Tabulate(LAMBDA k : [k |-> k, row |-> clean[k]],
                           Len(clean)),
                  LAMBDA t : change[t.k] # Num(0))))

\* the rows of clean_df whose position differs from the previous row's
\* (position.diff().fillna(0) != 0)
TradeRows(clean_df) ==
    Bind(clean_df, LAMBDA clean :
    Bind(Diff(Col(clean, "position"), 1), LAMBDA change :
        SelectSeq(Tabulate(LAMBDA k : [k |-> k, row |-> clean[k]],
                           Len(clean)),
                  LAMBDA t : ~IsNaN(change[t.k]) /\ change[t.k] # Num(0))))

\* trades['close'].shift(-1) / trades['close'] - 1: the close of the next
\* row of trades, NaN on the last one
NextReturn(trades, j) ==
    IF j < Len(trades)
    THEN Sub(Div(trades[j + 1].row.close, trades[j].row.close), Num(1))
    ELSE NaN

\* the wins divided by the rows that have a next row in trades
WinRate_over_decided(trade_rows) ==
    Bind(trade_rows, LAMBDA trades :
        IF Len(trades) > 1
        THEN Rat(Cardinality(
                   {j \in 1..Len(trades) :
                      Bind(NextReturn(trades, j), LAMBDA next_return :
                        \/ Gt(trades[j].row.position, Num(0))
                           /\ Gt(next_return, Num(0))
                        \/ trades[j].row.position = Num(0)
                           /\ Lt(next_return, Num(0)))}),
                 Len(trades) - 1)
        ELSE NaN)

\* wins / len(trades) when len(trades) > 1, else NaN; a NaN next_return
\* compares false both ways
WinRate(trade_rows) ==
    Bind(trade_rows, LAMBDA trades :
        IF Len(trades) > 1
        THEN Rat(Cardinality(
                   {j \in 1..Len(trades) :
                      Bind(NextReturn(trades, j), LAMBDA next_return :
                        \/ Gt(trades[j].row.position, Num(0))
                           /\ Gt(next_return, Num(0))
                        \/ trades[j].row.position = Num(0)
                           /\ Lt(next_return, Num(0)))}),
                 Len(trades))
        ELSE NaN)

\* the drawdown taken against the running minimum
Drawdown_against_cummin(equity_curve) ==
    Bind(equity_curve, LAMBDA equity :
        Tabulate(LAMBDA k :
            Sub(Div(equity[k], MinRange(equity, 1, k)), Num(1)),
            Len(equity)))

\* peak = equity_curve.cummax(); drawdown = equity_curve / peak - 1
Drawdown(equity_curve) ==
    Bind(equity_curve, LAMBDA equity :
        Tabulate(LAMBDA k :
            Sub(Div(equity[k], MaxRange(equity, 1, k)), Num(1)),
            Len(equity)))

\* the statistics with exact values; annual_return, sharpe_ratio and
\* volatility are powers and roots and are carried only by total_days
calculate_stats(df) ==
    Bind(DropNaPosition(df), LAMBDA clean :
    Bind2(TradeRows(clean), EquityCurve(clean), LAMBDA trades, equity :
    Bind(Drawdown(equity), LAMBDA drawdown :
        [ total_return |-> Sub(equity[Len(clean)], Num(1)),
          max_drawdown |-> MinRange(drawdown, 1, Len(clean)),
          win_rate |-> WinRate(trades),
          trade_count |-> Len(trades),
          total_days |-> clean[Len(clean)].date - clean[1].date,
          equity_curve |-> equity ])))

\* calculate_stats raises instead of returning: clean_df.index[-1] on an
\* empty frame, and 1 / total_years when the first and last dates coincide
StatsRaises(df) ==
    Bind(DropNaPosition(df), LAMBDA clean :
        \/ Len(clean) = 0
        \/ clean[Len(clean)].date - clean[1].date = 0)

-----------------------------------------------------------------------------
(* run_strategy                                                            *)

\* DataFrame.sort_index(): rows in ascending date order (insertion sort,
\* rows with equal dates keep their order)
RECURSIVE InsertByDate(_, _)
InsertByDate(sorted_rows, new_row) ==
    Bind2(sorted_rows, new_row, LAMBDA sorted, row :
        IF sorted = <<>> THEN <<row>>
        ELSE IF sorted[Len(sorted)].date <= row.date THEN Append(sorted, row)
        ELSE Append(InsertByDate(SubSeq(sorted, 1, Len(sorted) - 1), row),
                    sorted[Len(sorted)]))

\* the rows left in the order they came in
SortIndex_keeping_order(d) == d

RECURSIVE SortPrefix(_, _)
SortPrefix(d, n) ==
    IF n = 0 THEN <<>> ELSE InsertByDate(SortPrefix(d, n - 1), d[n])

SortIndex(d) == SortPrefix(d, Len(d))

\* df['position'] = df['composite_signal'].apply(calculate_position_size)
WithPosition(cfg, frame) ==
    Bind(frame, LAMBDA sig :
        Tabulate(LAMBDA k :
            sig[k] @@ [position |->
                calculate_position_size(cfg, sig[k].composite_signal)],
            Len(sig)))

\* df['stop_loss'] from the loop over range(len(df))
WithStopLoss(cfg, frame) ==
    Bind(frame, LAMBDA pos :
        Tabulate(LAMBDA k :
            pos[k] @@ [stop_loss |-> stop_loss_at(cfg, pos, k)], Len(pos)))

\* the same frame with the rows whose composite_signal is undefined left out
EnrichDroppingUndefined(cfg, d) ==
    SelectSeq(
        WithStopLoss(cfg, WithPosition(cfg,
            generate_signals(cfg, calculate_indicators(cfg, SortIndex(d))))),
        LAMBDA row : ~IsNaN(row.composite_signal))

\* the frame run_strategy returns: sorted copy, indicators, signals,
\* position, stop_loss
Enrich(cfg, d) ==
    WithStopLoss(cfg, WithPosition(cfg,
        generate_signals(cfg, calculate_indicators(cfg, SortIndex(d)))))

NoResult == [status |-> "none", df |-> <<>>, stats |-> <<>>]

\* an empty series answered with an empty frame and default statistics
run_strategy_empty_default(cfg, d) ==
    IF d = <<>>
    THEN [status |-> "ok", df |-> <<>>,
          stats |-> [total_return |-> Num(0), max_drawdown |-> Num(0),
                     win_rate |-> NaN, trade_count |-> 0, total_days |-> 0,
                     equity_curve |-> <<>>]]
    ELSE Bind(Enrich(cfg, d), LAMBDA df :
             IF StatsRaises(df)
             THEN [status |-> "error", df |-> <<>>, stats |-> <<>>]
             ELSE [status |-> "ok", df |-> df, stats |-> calculate_stats(df)])

\* raises (status "error") where calculate_stats raises, else returns the
\* enriched frame and the statistics
run_strategy(cfg, d) ==
    Bind(Enrich(cfg, d), LAMBDA df :
        IF StatsRaises(df)
        THEN [status |-> "error", df |-> <<>>, stats |-> <<>>]
        ELSE [status |-> "ok", df |-> df, stats |-> calculate_stats(df)])

-----------------------------------------------------------------------------
(* get_latest_signal                                                       *)

\* the tiers compared with > where the source has >=
signal_type_exclusive(latest_position) ==
    IF Gt(latest_position, Num(0))
    THEN IF Gt(latest_position, Rat(14, 10)) THEN "very_strong_buy"
         ELSE IF Gt(latest_position, Rat(12, 10)) THEN "strong_buy"
         ELSE IF Gt(latest_position, Rat(10, 10)) THEN "buy"
         ELSE "weak_buy"
    ELSE "sell"

\* the label of the latest position; the source's labels are
\* "极强买入信号", "强买入信号", "买入信号", "弱买入信号", "卖出信号"
signal_type(latest_position) ==
    IF Gt(latest_position, Num(0))
    THEN IF Ge(latest_position, Rat(14, 10)) THEN "very_strong_buy"
         ELSE IF Ge(latest_position, Rat(12, 10)) THEN "strong_buy"
         ELSE IF Ge(latest_position, Rat(10, 10)) THEN "buy"
         ELSE "weak_buy"
    ELSE "sell"

\* run_strategy(data), then the fields of df.iloc[-1]; raises where
\* run_strategy raises and where iloc[-1] finds no row
get_latest_signal(cfg, d) ==
    Bind(run_strategy(cfg, d), LAMBDA run :
        IF run.status = "error" \/ Len(run.df) = 0
        THEN [status |-> "error", ret |-> <<>>]
        ELSE Bind(run.df[Len(run.df)], LAMBDA latest :
                 [status |-> "ok",
                  ret |-> [ date |-> latest.date,
                            close |-> latest.close,
                            signal_value |-> latest.composite_signal,
                            position |-> latest.position,
                            signal_type |-> signal_type(latest.position),
                            stop_loss |-> latest.stop_loss,
                            ma_long |-> latest.MA_long,
                            ma_short |-> latest.MA_short,
                            rsi |-> latest.RSI,
                            macd |-> latest.MACD,
                            adx |-> latest.ADX,
                            stats |-> run.stats ]]))

-----------------------------------------------------------------------------
(* The frame objects: which writes of a method reach the caller's frame    *)

\* df = data: the local name bound to the caller's object, no copy made
Copy_alias(frame) == [object |-> "argument", rows |-> frame]

\* DataFrame.copy(): a new object holding the rows of the argument
Copy(frame) == [object |-> "new", rows |-> frame]

\* DataFrame.sort_index() returns a new object, whatever it is called on
sort_index(frame_object) ==
    [object |-> "new", rows |-> SortIndex(frame_object.rows)]

\* DataFrame.dropna(subset=['position']) returns a new object
dropna(frame) == [object |-> "new", rows |-> DropNaPosition(frame)]

\* the rows of the caller's frame after the method assigned the columns of
\* `written` on its local frame object
ArgumentAfter(argument, local, written) ==
    IF local.object = "argument" THEN written ELSE argument

\* what each method returns and what it leaves in the frame passed to it
calculate_indicators_call(cfg, d) ==
    Bind(calculate_indicators(cfg, d), LAMBDA ret :
        [status |-> "ok", ret |-> ret,
         after |-> ArgumentAfter(d, Copy(d), ret)])

generate_signals_call(cfg, df) ==
    Bind(generate_signals(cfg, df), LAMBDA ret :
        [status |-> "ok", ret |-> ret,
         after |-> ArgumentAfter(df, Copy(df), ret)])

run_strategy_call(cfg, d) ==
    Bind(run_strategy(cfg, d), LAMBDA run :
        [status |-> run.status,
         ret |-> IF run.status = "ok"
                 THEN [df |-> run.df, stats |-> run.stats] ELSE <<>>,
         after |-> ArgumentAfter(d, sort_index(Copy(d)), run.df)])

calculate_stats_call(df) ==
    IF StatsRaises(df)
    THEN [status |-> "error", ret |-> <<>>, after |-> df]
    ELSE Bind(calculate_stats(df), LAMBDA stats :
             [status |-> "ok", ret |-> stats,
              after |-> ArgumentAfter(df, dropna(df), df)])

get_latest_signal_call(cfg, d) ==
    Bind(get_latest_signal(cfg, d), LAMBDA latest :
        [status |-> latest.status, ret |-> latest.ret,
         after |-> ArgumentAfter(d, sort_index(Copy(d)),
                                 run_strategy(cfg, d).df)])

\* no method called yet / main() not started, no history file / no file
NoCall ==
    [method |-> "none", status |-> "none", ret |-> <<>>, before |-> <<>>,
     after |-> <<>>, seen |-> <<>>, calls |-> 0]
NoMain ==
    [pc |-> "idle", runs |-> 0, history |-> <<>>, position_history |-> <<>>,
     no_email |-> FALSE, github_actions |-> FALSE, EmailNotifier |-> "None",
     email_sender |-> FALSE, email_password |-> FALSE,
     email_recipient |-> FALSE,
     latest_signal |-> <<>>, recorded |-> <<0, 0>>, action |-> "none",
     strategy_ran |-> FALSE, report_done |-> FALSE,
     chart_attempted |-> FALSE, signal_email_sent |-> FALSE,
     error_email_sent |-> FALSE]
NoFile == <<>>

-----------------------------------------------------------------------------
(* Bounds and inputs                                                       *)

MaxLen == 9        \* longest price series handed to the strategy
MaxSignal == 120   \* largest composite value tried, in hundredths

\* the (close, high, low) of a weekly bar; open and volume are never read
BarShapes ==
    { [close |-> Num(2), high |-> Num(3), low |-> Num(1)],
      [close |-> Num(3), high |-> Num(3), low |-> Num(2)] }

\* user configurations: short windows, the default thresholds
Windows(l, s, r, a, t) ==
    [ ma_long |-> l, ma_short |-> s, rsi_period |-> r,
      macd_fast |-> 1, macd_slow |-> 3, macd_signal |-> 3,
      adx_period |-> a, atr_period |-> t ]

DefaultWeights ==
    [ k \in {"trend_weight", "slope_weight", "momentum_weight",
             "environment_weight"} |-> default_config[k] ]

\* weights that do not sum to 1
EqualWeights ==
    [ trend_weight |-> Rat(40, 100), slope_weight |-> Rat(40, 100),
      momentum_weight |-> Rat(40, 100), environment_weight |-> Rat(40, 100) ]

UserConfigs ==
    { Windows(3, 1, 1, 1, 1) @@ DefaultWeights,
      Windows(1, 3, 2, 1, 1) @@ DefaultWeights,
      Windows(1, 1, 2, 1, 3) @@ EqualWeights }

StrategyConfigs == { MergeConfig(u) : u \in UserConfigs }

ThresholdValues == { Rat(50, 100), Rat(65, 100), Rat(75, 100), Rat(90, 100) }

ThresholdConfigs ==
    { MergeConfig([signal_threshold |-> t, weak_signal |-> w,
                   strong_signal |-> st, very_strong_signal |-> v]) :
        t \in ThresholdValues, w \in ThresholdValues,
        st \in ThresholdValues, v \in ThresholdValues }

SignalInputs == { Rat(k, 100) : k \in 0..MaxSignal } \cup {NaN}

-----------------------------------------------------------------------------
(* The strategy fed by its caller                                          *)

Init ==
    /\ config \in StrategyConfigs
    /\ data = <<>>
    /\ result = NoResult
    /\ signal_value = NaN
    /\ position = NaN
    /\ called = FALSE
    /\ call = NoCall
    /\ main = NoMain
    /\ config_file = NoFile

\* the data collaborator delivers the next weekly bar of the series
AppendBar ==
    /\ result.status = "none"
    /\ Len(data) < MaxLen
    /\ \E shape \in BarShapes :
          data' = Append(data, [date |-> 7 * (Len(data) + 1)] @@ shape)
    /\ UNCHANGED <<config, result, signal_value, position, called,
                 call, main, config_file>>

\* strategy.run_strategy(data)
RunStrategy ==
    /\ result' = run_strategy(config, data)
    /\ UNCHANGED <<config, data, signal_value, position, called,
                 call, main, config_file>>

Next == AppendBar \/ RunStrategy

Spec == Init /\ [][Next]_vars

-----------------------------------------------------------------------------
(* A direct call of calculate_position_size                                *)

InitPos ==
    /\ config \in ThresholdConfigs
    /\ data = <<>>
    /\ result = NoResult
    /\ signal_value \in SignalInputs
    /\ position = NaN
    /\ called = FALSE
    /\ call = NoCall
    /\ main = NoMain
    /\ config_file = NoFile

CalculatePositionSize ==
    /\ ~called
    /\ position' = calculate_position_size(config, signal_value)
    /\ called' = TRUE
    /\ UNCHANGED <<config, data, result, signal_value,
                 call, main, config_file>>

NextPos == CalculatePositionSize

SpecPos == InitPos /\ [][NextPos]_vars

-----------------------------------------------------------------------------
(* A direct call of calculate_stats on a frame of dated rows that carry a  *)
(* close and a position                                                    *)

MaxRows == 4

CloseInputs == { Num(2), Num(3) }
PositionInputs == { NaN, Num(0), Rat(4, 5), Rat(6, 5) }

InitStats ==
    /\ config = default_config
    /\ data = <<>>
    /\ result = NoResult
    /\ signal_value = NaN
    /\ position = NaN
    /\ called = FALSE
    /\ call = NoCall
    /\ main = NoMain
    /\ config_file = NoFile

AppendRow ==
    /\ result.status = "none"
    /\ Len(data) < MaxRows
    /\ \E c \in CloseInputs, p \in PositionInputs :
           data' = Append(data, [ date |-> 7 * (Len(data) + 1),
                                  close |-> c, position |-> p ])
    /\ UNCHANGED <<config, result, signal_value, position, called,
                 call, main, config_file>>

CalculateStats ==
    /\ result.status = "none"
    /\ result' = IF StatsRaises(data)
                 THEN [status |-> "error", df |-> data, stats |-> <<>>]
                 ELSE [status |-> "ok", df |-> data,
                       stats |-> calculate_stats(data)]
    /\ UNCHANGED <<config, data, signal_value, position, called,
                 call, main, config_file>>

NextStats == AppendRow \/ CalculateStats

SpecStats == InitStats /\ [][NextStats]_vars

-----------------------------------------------------------------------------
(* A caller that holds a series and calls the methods of one strategy      *)
(* instance on it: calculate_indicators then generate_signals on what it   *)
(* got back, run_strategy then calculate_stats on the returned frame, and  *)
(* run_strategy / get_latest_signal in turn on the same series             *)

MaxApiLen == 7        \* longest series the caller holds
MaxUnsortedLen == 3   \* longest series delivered with dates out of order
MaxCalls == 3         \* run_strategy / get_latest_signal calls in a row

ApiConfigs ==
    { MergeConfig(Windows(3, 1, 1, 1, 1) @@ DefaultWeights),
      MergeConfig(Windows(1, 1, 2, 1, 3) @@ EqualWeights) }

InitApi ==
    /\ config \in ApiConfigs
    /\ data = <<>>
    /\ result = NoResult
    /\ signal_value = NaN
    /\ position = NaN
    /\ called = FALSE
    /\ call = NoCall
    /\ main = NoMain
    /\ config_file = NoFile

StrictlyIncreasing(frame) ==
    \A k \in 2..Len(frame) : frame[k - 1].date < frame[k].date

\* the data collaborator delivers the next weekly bar
DeliverBar ==
    /\ call.method = "none"
    /\ Len(data) < MaxApiLen
    /\ StrictlyIncreasing(data)
    /\ \E shape \in BarShapes :
          data' = Append(data, [date |-> 7 * (Len(data) + 1)] @@ shape)
    /\ UNCHANGED <<config, result, signal_value, position, called,
                   call, main, config_file>>

\* the series reaches the strategy with its last two bars exchanged, or
\* with the last bar carrying the date of the bar before it
DeliverUnsorted ==
    /\ call.method = "none"
    /\ Len(data) >= 2 /\ Len(data) <= MaxUnsortedLen
    /\ StrictlyIncreasing(data)
    /\ \E repeated \in BOOLEAN :
          LET n == Len(data)
          IN  data' = IF repeated
                      THEN [data EXCEPT ![n].date = data[n - 1].date]
                      ELSE [data EXCEPT ![n - 1] = data[n], ![n] = data[n - 1]]
    /\ UNCHANGED <<config, result, signal_value, position, called,
                   call, main, config_file>>

CallCalculateIndicators ==
    /\ call.method = "none"
    /\ \E out \in { calculate_indicators_call(config, data) } :
          /\ call' = [method |-> "calculate_indicators", status |-> out.status,
                      ret |-> out.ret, before |-> data, after |-> out.after,
                      seen |-> call.seen, calls |-> call.calls]
          /\ data' = out.after
    /\ UNCHANGED <<config, result, signal_value, position, called,
                   main, config_file>>

\* generate_signals on the frame calculate_indicators returned
CallGenerateSignals ==
    /\ call.method = "calculate_indicators"
    /\ \E out \in { generate_signals_call(config, call.ret) } :
          call' = [method |-> "generate_signals", status |-> out.status,
                   ret |-> out.ret, before |-> call.ret, after |-> out.after,
                   seen |-> call.seen, calls |-> call.calls]
    /\ UNCHANGED <<config, data, result, signal_value, position, called,
                   main, config_file>>

CallRunStrategy ==
    /\ call.method \in {"none", "get_latest_signal"}
    /\ call.calls < MaxCalls
    /\ \E out \in { run_strategy_call(config, data) } :
          /\ call' = [method |-> "run_strategy", status |-> out.status,
                      ret |-> out.ret, before |-> data, after |-> out.after,
                      seen |-> IF call.seen = <<>> THEN out.ret
                               ELSE call.seen,
                      calls |-> call.calls + 1]
          /\ data' = out.after
    /\ UNCHANGED <<config, result, signal_value, position, called,
                   main, config_file>>

\* calculate_stats on the frame run_strategy returned
CallCalculateStats ==
    /\ call.method = "run_strategy" /\ call.status = "ok"
    /\ \E out \in { calculate_stats_call(call.ret.df) } :
          call' = [method |-> "calculate_stats", status |-> out.status,
                   ret |-> out.ret, before |-> call.ret.df,
                   after |-> out.after,
                   seen |-> call.seen, calls |-> call.calls]
    /\ UNCHANGED <<config, data, result, signal_value, position, called,
                   main, config_file>>

\* get_latest_signal fitting the long window to the series and keeping it
\* in self.config
CallGetLatestSignal_storing_window ==
    /\ call.method \in {"none", "run_strategy"}
    /\ call.calls < MaxCalls
    /\ \E out \in { get_latest_signal_call(config, data) } :
          /\ call' = [method |-> "get_latest_signal", status |-> out.status,
                      ret |-> out.ret, before |-> data, after |-> out.after,
                      seen |-> call.seen, calls |-> call.calls + 1]
          /\ data' = out.after
    /\ config' = [config EXCEPT
                     !.ma_long = IntMax(1, IF Len(data) < @ THEN Len(data)
                                           ELSE @)]
    /\ UNCHANGED <<result, signal_value, position, called,
                   main, config_file>>

CallGetLatestSignal ==
    /\ call.method \in {"none", "run_strategy"}
    /\ call.calls < MaxCalls
    /\ \E out \in { get_latest_signal_call(config, data) } :
          /\ call' = [method |-> "get_latest_signal", status |-> out.status,
                      ret |-> out.ret, before |-> data, after |-> out.after,
                      seen |-> call.seen, calls |-> call.calls + 1]
          /\ data' = out.after
    /\ UNCHANGED <<config, result, signal_value, position, called,
                   main, config_file>>

NextApi ==
    \/ DeliverBar
    \/ DeliverUnsorted
    \/ CallCalculateIndicators
    \/ CallGenerateSignals
    \/ CallRunStrategy
    \/ CallCalculateStats
    \/ CallGetLatestSignal

SpecApi == InitApi /\ [][NextApi]_vars

-----------------------------------------------------------------------------
(* load_config: the period parameters of the [Strategy] section           *)
(*                                                                         *)
(* The file is the sequence of "key = value" lines of its [Strategy]      *)
(* section, in file order, restricted to the eight integer period keys.   *)
(* A value is the text after the "=": a decimal literal (kept as the      *)
(* rational it denotes), "nan", "inf", or text that is no number.         *)

MaxEntries == 2    \* most lines the [Strategy] section holds

int_params ==
    { "ma_long", "ma_short", "rsi_period", "macd_fast", "macd_slow",
      "macd_signal", "adx_period", "atr_period" }

\* the period entries of the dictionary load_config starts from
period_defaults ==
    [ ma_long |-> 45, ma_short |-> 20, rsi_period |-> 14,
      macd_fast |-> 12, macd_slow |-> 26, macd_signal |-> 9,
      adx_period |-> 14, atr_period |-> 14 ]

Literal(n, d) == [kind |-> "number", value |-> Rat(n, d)]

\* "abc", "nan", "inf", "0", "-3", "0.9", "-0.5", "2.7", "5"
RawValues ==
    { [kind |-> "text"], [kind |-> "nan"], [kind |-> "inf"],
      Literal(0, 1), Literal(-3, 1), Literal(9, 10), Literal(-1, 2),
      Literal(27, 10), Literal(5, 1) }

\* int(x) of a finite float: the fraction is dropped, towards zero
int_of_float(x) ==
    IF x[1] >= 0 THEN x[1] \div x[2] ELSE -((-x[1]) \div x[2])

\* one pass of the loop body for an integer key.  float() raises ValueError
\* on text and int() raises ValueError on nan: the inner handler logs and
\* the entry keeps its default.  int() raises OverflowError on inf, which
\* the inner handler does not catch.  Otherwise the parsed value is stored
\* first, and the validation then reads the stored value back:
\* config[key] = int(config.get(key, 1)).
read_int_param(cfg, key, raw) ==
    IF raw.kind \in {"text", "nan"}
    THEN [status |-> "ok", config |-> cfg]
    ELSE IF raw.kind = "inf"
    THEN [status |-> "raise", config |-> cfg]
    ELSE LET stored == [cfg EXCEPT ![key] = int_of_float(raw.value)]
         IN  [status |-> "ok",
              config |-> IF stored[key] <= 0
                         THEN [stored EXCEPT ![key] = stored[key]]
                         ELSE stored]

\* for key in parser['Strategy'], in file order; an exception that leaves
\* the loop body is caught by the outer handler, which ends the reading
RECURSIVE read_strategy(_, _, _)
read_strategy(cfg, file, k) ==
    IF k > Len(file) THEN cfg
    ELSE LET step == read_int_param(cfg, file[k].key, file[k].raw)
         IN  IF step.status = "raise" THEN step.config
             ELSE read_strategy(step.config, file, k + 1)

\* parser.read raises DuplicateOptionError when a key occurs twice
DuplicateOption(file) ==
    \E i, j \in DOMAIN file : i < j /\ file[i].key = file[j].key

load_config(file) ==
    IF DuplicateOption(file) THEN period_defaults
    ELSE read_strategy(period_defaults, file, 1)

InitConfig ==
    /\ config = period_defaults
    /\ data = <<>>
    /\ result = NoResult
    /\ signal_value = NaN
    /\ position = NaN
    /\ called = FALSE
    /\ call = NoCall
    /\ main = NoMain
    /\ config_file = NoFile

\* the user writes one more line into the [Strategy] section
WriteEntry ==
    /\ ~called
    /\ Len(config_file) < MaxEntries
    /\ \E key \in int_params, raw \in RawValues :
          config_file' = Append(config_file, [key |-> key, raw |-> raw])
    /\ UNCHANGED <<config, data, result, signal_value, position, called,
                   call, main>>

\* config = load_config(args.config)
LoadConfig ==
    /\ ~called
    /\ \E out \in { load_config(config_file) } : config' = out
    /\ called' = TRUE
    /\ UNCHANGED <<data, result, signal_value, position, call, main,
                   config_file>>

NextConfig ==
    \/ WriteEntry
    \/ LoadConfig

SpecConfig == InitConfig /\ [][NextConfig]_vars

-----------------------------------------------------------------------------
(* main(): one run of the script after another over the same data          *)
(* directory.  main.pc is the step the current run has reached,            *)
(* main.history the rows of position_history.csv (date, position), kept    *)
(* from run to run, main.position_history the frame the run holds.         *)
(* A text option of the configuration is TRUE when it is non-empty.        *)

MaxRuns == 3       \* runs of the script over the same data directory

MainDates == {7, 14}
MainPositions == { Num(0), Rat(4, 5), Rat(6, 5) }

\* EmailNotifier after the module's import block
ImportEmailNotifier(github_actions, importable) ==
    IF ~github_actions
    THEN IF importable THEN "class" ELSE "None"
    ELSE "None"

\* all([sender, password, recipient]) with one option tested twice
email_config_valid_any(sender, password, recipient) ==
    sender \/ password \/ recipient

email_config_valid(sender, password, recipient) ==
    sender /\ password /\ recipient

\* the rows of the frame labelled with the date
Loc(frame, date) == { k \in DOMAIN frame : frame[k].date = date }

\* step 8's condition: "append" when the frame is empty, the date is new
\* or the position differs from the one recorded for the date; "keep"
\* when it is the same.  With several rows for the date .loc returns a
\* Series, the comparison is a Series and its truth value raises ValueError.
history_update(position_history, latest_signal) ==
    IF position_history = <<>> THEN "append"
    ELSE IF Loc(position_history, latest_signal.date) = {} THEN "append"
    ELSE IF Cardinality(Loc(position_history, latest_signal.date)) > 1
    THEN "raise"
    ELSE LET k == CHOOSE i \in Loc(position_history, latest_signal.date) :
                    TRUE
         IN  IF latest_signal.position # position_history[k].position
             THEN "append" ELSE "keep"

\* generate_position_summary: current_position
current_position(position_history) ==
    IF position_history = <<>> THEN Num(0)
    ELSE position_history[Len(position_history)].position

\* the position of the last row of the history file as the run loaded it,
\* undefined when the file held no row
recorded_position(loaded) ==
    IF loaded = <<>> THEN NaN ELSE loaded[Len(loaded)].position

analyze_signal_change(current, previous) ==
    IF Gt(current, previous)
    THEN IF previous = Num(0) THEN "buy" ELSE "add"
    ELSE IF Lt(current, previous)
    THEN IF current = Num(0) THEN "sell" ELSE "reduce"
    ELSE "hold"

\* generate_signal_report: the action of the report
report_action(latest_signal, position_history) ==
    analyze_signal_change(latest_signal.position,
                          current_position(position_history))

InitMain ==
    /\ config = period_defaults
    /\ data = <<>>
    /\ result = NoResult
    /\ signal_value = NaN
    /\ position = NaN
    /\ called = FALSE
    /\ call = NoCall
    /\ main = NoMain
    /\ config_file = NoFile

\* the process starts: environment, import block, command line and
\* configuration; nothing of an earlier run is left but the history file
StartMain ==
    /\ main.pc \in {"idle", "done", "exit"}
    /\ main.runs < MaxRuns
    /\ \E github_actions, importable, no_email \in BOOLEAN,
          sender, password, recipient \in BOOLEAN :
          main' = [NoMain EXCEPT
                      !.pc = "load_data",
                      !.runs = main.runs + 1,
                      !.history = main.history,
                      !.no_email = no_email,
                      !.github_actions = github_actions,
                      !.EmailNotifier =
                          ImportEmailNotifier(github_actions, importable),
                      !.email_sender = sender,
                      !.email_password = password,
                      !.email_recipient = recipient]
    /\ UNCHANGED <<config, data, result, signal_value, position, called,
                   call, config_file>>

\* steps 1-3: with no data the error mail goes out through send_email,
\* when mail is configured, and the run ends with sys.exit(1)
LoadData ==
    /\ main.pc = "load_data"
    /\ \E empty \in BOOLEAN :
          IF empty
          THEN main' = [main EXCEPT
                  !.pc = "exit",
                  !.error_email_sent =
                      /\ ~main.no_email
                      /\ main.EmailNotifier # "None"
                      /\ email_config_valid(main.email_sender,
                                            main.email_password,
                                            main.email_recipient)]
          ELSE main' = [main EXCEPT !.pc = "strategy"]
    /\ UNCHANGED <<config, data, result, signal_value, position, called,
                   call, config_file>>

\* steps 4-6: run_strategy and get_latest_signal; either raises on the
\* series it raises on, and the handler ends the run with sys.exit(1).
\* The history file never holds a date later than the latest bar.
RunStrategyStep ==
    /\ main.pc = "strategy"
    /\ \/ main' = [main EXCEPT !.pc = "exit"]
       \/ \E date \in MainDates, latest_position \in MainPositions :
             /\ \A k \in DOMAIN main.history : main.history[k].date <= date
             /\ main' = [main EXCEPT
                   !.pc = "history",
                   !.strategy_ran = TRUE,
                   !.latest_signal =
                       [date |-> date, position |-> latest_position,
                        signal_type |-> signal_type(latest_position)]]
    /\ UNCHANGED <<config, data, result, signal_value, position, called,
                   call, config_file>>

\* steps 7-8: load_position_history, then append and save when the date
\* is new or the position changed
UpdateHistory ==
    /\ main.pc = "history"
    /\ \E loaded \in { main.history } :
       \E update \in { history_update(loaded, main.latest_signal) } :
         IF update = "raise"
         THEN main' = [main EXCEPT
                 !.pc = "exit",
                 !.position_history = loaded,
                 !.recorded = recorded_position(loaded)]
         ELSE IF update = "append"
         THEN \E appended \in
                  { Append(loaded, [date |-> main.latest_signal.date,
                                    position |->
                                        main.latest_signal.position]) } :
                 main' = [main EXCEPT
                     !.pc = "report",
                     !.position_history = appended,
                     !.history = appended,
                     !.recorded = recorded_position(loaded)]
         ELSE main' = [main EXCEPT
                 !.pc = "report",
                 !.position_history = loaded,
                 !.recorded = recorded_position(loaded)]
    /\ UNCHANGED <<config, data, result, signal_value, position, called,
                   call, config_file>>

\* steps 9-11: the summary of the frame the run holds, then the report
GenerateReport ==
    /\ main.pc = "report"
    /\ main' = [main EXCEPT
          !.pc = "chart",
          !.report_done = TRUE,
          !.action = report_action(main.latest_signal,
                                   main.position_history)]
    /\ UNCHANGED <<config, data, result, signal_value, position, called,
                   call, config_file>>

\* step 12: both charts are tried; a failure of the static chart draws the
\* simplified one, and a failure of that one leaves through the handler
GenerateCharts ==
    /\ main.pc = "chart"
    /\ \E fallback_raises \in BOOLEAN :
          main' = [main EXCEPT
              !.pc = IF fallback_raises THEN "exit" ELSE "email",
              !.chart_attempted = TRUE]
    /\ UNCHANGED <<config, data, result, signal_value, position, called,
                   call, config_file>>

\* step 13: send_signal_email
SendNotification ==
    /\ main.pc = "email"
    /\ main' = [main EXCEPT
          !.pc = "done",
          !.signal_email_sent =
              /\ ~main.no_email
              /\ ~main.github_actions
              /\ main.EmailNotifier # "None"
              /\ email_config_valid(main.email_sender,
                                    main.email_password,
                                    main.email_recipient)]
    /\ UNCHANGED <<config, data, result, signal_value, position, called,
                   call, config_file>>

NextMain ==
    \/ StartMain
    \/ LoadData
    \/ RunStrategyStep
    \/ UpdateHistory
    \/ GenerateReport
    \/ GenerateCharts
    \/ SendNotification

SpecMain == InitMain /\ [][NextMain]_vars

-----------------------------------------------------------------------------
(* Properties                                                              *)

Returned == result.status = "ok"
Rows == 1..Len(result.df)
WarmUp == IF config.ma_long > config.adx_period
          THEN config.ma_long ELSE config.adx_period
Tiers == { <<0, 1>>, <<4, 5>>, <<1, 1>>, <<6, 5>>, <<7, 5>> }

\* C1: under the default thresholds a defined composite value n/d maps to
\* 1.4 from 0.9 up, 1.2 from 0.75 up, 1.0 from 0.65 up, 0.8 from 0.5 up and
\* 0.0 below 0.5, each threshold belonging to the tier above it.
C1_DefaultTiers ==
    (called /\ config = default_config /\ Defined(signal_value)) =>
        LET n == signal_value[1]
            d == signal_value[2]
        IN  position = IF 10 * n >= 9 * d THEN <<7, 5>>
                       ELSE IF 4 * n >= 3 * d THEN <<6, 5>>
                       ELSE IF 20 * n >= 13 * d THEN <<1, 1>>
                       ELSE IF 2 * n >= d THEN <<4, 5>>
                       ELSE <<0, 1>>

C1_Witness ==
    /\ called /\ config = default_config
    /\ signal_value = <<13, 20>> /\ position = <<1, 1>>

\* C2: for every configuration of the four thresholds, a composite value at
\* least as large as the one sized never gets a smaller position.
C2_Monotone ==
    called =>
        \A s \in SignalInputs :
            (Defined(signal_value) /\ Defined(s) /\ Le(signal_value, s)) =>
                Le(position, calculate_position_size(config, s))

C2_Witness ==
    /\ called
    /\ Lt(config.strong_signal, config.signal_threshold)
    /\ Lt(config.weak_signal, config.signal_threshold)
    /\ position = <<6, 5>>

\* C3: every returned row whose composite_signal is undefined has an
\* undefined position.
C3_UndefinedCompositeUndefinedPosition ==
    Returned =>
        \A k \in Rows :
            IsNaN(result.df[k].composite_signal) =>
                IsNaN(result.df[k].position)

\* C4: in every returned row a defined position is one of the five tiers
\* 0.0, 0.8, 1.0, 1.2, 1.4, also when the weights do not sum to 1.
C4_PositionTiers ==
    Returned =>
        \A k \in Rows :
            Defined(result.df[k].position) => result.df[k].position \in Tiers

C4_Witness ==
    /\ Returned
    /\ \E k \in Rows :
          /\ Gt(result.df[k].composite_signal, Num(1))
          /\ result.df[k].position = <<7, 5>>

\* C5: every returned row with 0-based index below max(ma_long, adx_period)
\* has an undefined stop_loss, whatever indicators are available there.
C5_WarmUpGate ==
    Returned =>
        \A k \in Rows : k - 1 < WarmUp => IsNaN(result.df[k].stop_loss)

C5_Witness ==
    /\ Returned
    /\ \E k \in Rows :
          /\ k - 1 < WarmUp
          /\ Defined(result.df[k].ATR) /\ Defined(result.df[k].MA_short)
          /\ Defined(result.df[k].MA_long) /\ Defined(result.df[k].ADX)
          /\ IsNaN(result.df[k].stop_loss)

\* C6: at or past the warm-up index stop_loss is defined exactly when ATR
\* and the short MA are both defined, and is then the larger of
\* close - atr_multiplier * ATR and the short MA.
C6_StopLossNeedsBoth ==
    Returned =>
        \A k \in Rows :
            k - 1 >= WarmUp =>
                LET row == result.df[k]
                    both == Defined(row.ATR) /\ Defined(row.MA_short)
                    atr_stop == Sub(row.close,
                                    Mul(config.atr_multiplier, row.ATR))
                IN  /\ Defined(row.stop_loss) <=> both
                    /\ both => row.stop_loss =
                                 IF Ge(atr_stop, row.MA_short)
                                 THEN atr_stop ELSE row.MA_short

\* C7: the returned frame has one row per bar of the input, with the
\* input's dates in the input's order.
C7_SameRows ==
    Returned =>
        /\ Len(result.df) = Len(data)
        /\ \A k \in 1..Len(data) : result.df[k].date = data[k].date

C7_Witness ==
    /\ Returned
    /\ Len(data) >= 7 /\ Len(result.df) = Len(data)
    /\ \E k \in Rows : IsNaN(result.df[k].composite_signal)
    /\ \E k \in Rows : Defined(result.df[k].composite_signal)

\* C8: where the long MA is defined, trend_signal is 1 when close is above
\* it and 0 otherwise, equality included.
C8_TrendBinary ==
    Returned =>
        \A k \in Rows :
            LET row == result.df[k]
            IN  Defined(row.MA_long) =>
                    row.trend_signal =
                        IF row.close[1] * row.MA_long[2]
                               > row.MA_long[1] * row.close[2]
                        THEN <<1, 1>> ELSE <<0, 1>>

C8_Witness ==
    /\ Returned
    /\ \E k \in Rows :
          /\ Defined(result.df[k].MA_long)
          /\ result.df[k].close = result.df[k].MA_long
          /\ result.df[k].trend_signal = <<0, 1>>
    /\ \E k \in Rows : result.df[k].trend_signal = <<1, 1>>

\* C9: where the long MA is undefined, trend_signal is undefined.
C9_TrendUndefinedWithoutLongMA ==
    Returned =>
        \A k \in Rows :
            IsNaN(result.df[k].MA_long) => IsNaN(result.df[k].trend_signal)

\* C10: a row with an undefined trend, slope, momentum or environment
\* signal has an undefined composite_signal.
C10_CompositePropagates ==
    Returned =>
        \A k \in Rows :
            LET row == result.df[k]
            IN  (\/ IsNaN(row.trend_signal)
                 \/ IsNaN(row.slope_signal)
                 \/ IsNaN(row.momentum_signal)
                 \/ IsNaN(row.environment_signal)) =>
                    IsNaN(row.composite_signal)

C10_Witness ==
    /\ Returned
    /\ \E k \in Rows :
          /\ Defined(result.df[k].trend_signal)
          /\ Defined(result.df[k].slope_signal)
          /\ Defined(result.df[k].environment_signal)
          /\ IsNaN(result.df[k].momentum_signal)
          /\ IsNaN(result.df[k].composite_signal)
    /\ \E k \in Rows : Defined(result.df[k].composite_signal)

\* a value that is undefined or lies between 0 and 1, both included
InUnit(x) == IsNaN(x) \/ (x[2] > 0 /\ 0 <= x[1] /\ x[1] <= x[2])

SumOfWeights ==
    Add(config.trend_weight,
        Add(config.slope_weight,
            Add(config.momentum_weight, config.environment_weight)))

UnitWeights ==
    /\ config.trend_weight[1] >= 0 /\ config.slope_weight[1] >= 0
    /\ config.momentum_weight[1] >= 0 /\ config.environment_weight[1] >= 0
    /\ SumOfWeights = <<1, 1>>

\* C11: in every returned row slope_signal, momentum_signal and
\* environment_signal are undefined or within [0, 1], and when the weights
\* are non-negative and sum to 1 so is composite_signal.
C11_SignalsBounded ==
    Returned =>
        \A k \in Rows :
            LET row == result.df[k]
            IN  /\ InUnit(row.slope_signal)
                /\ InUnit(row.momentum_signal)
                /\ InUnit(row.environment_signal)
                /\ UnitWeights => InUnit(row.composite_signal)

C11_Witness ==
    /\ Returned /\ UnitWeights
    /\ \E k \in Rows : result.df[k].slope_signal = <<1, 1>>
    /\ \E k \in Rows : result.df[k].slope_signal = <<0, 1>>
    /\ \E k \in Rows :
          LET row == result.df[k]
          IN  /\ Defined(row.composite_signal)
              /\ Lt(Num(0), row.momentum_signal)
              /\ Lt(row.momentum_signal, Num(1))
              /\ Lt(Num(0), row.environment_signal)

\* C12: in every returned row composite_signal is the sum of the four
\* sub-signals each times its configured weight, larger than 1 when the
\* weights allow it, and the position is the tier of that very value.
C12_WeightedSum ==
    Returned =>
        \A k \in Rows :
            LET row == result.df[k]
                sum == Add(Mul(row.trend_signal, config.trend_weight),
                       Add(Mul(row.slope_signal, config.slope_weight),
                       Add(Mul(row.momentum_signal, config.momentum_weight),
                           Mul(row.environment_signal,
                               config.environment_weight))))
                n == sum[1]
                d == sum[2]
            IN  /\ row.composite_signal = sum
                /\ (/\ row.trend_signal = <<1, 1>>
                    /\ row.slope_signal = <<1, 1>>
                    /\ row.momentum_signal = <<1, 1>>
                    /\ row.environment_signal = <<1, 1>>) =>
                       row.composite_signal = SumOfWeights
                /\ Defined(sum) =>
                       row.position =
                           IF 10 * n >= 9 * d THEN <<7, 5>>
                           ELSE IF 4 * n >= 3 * d THEN <<6, 5>>
                           ELSE IF 20 * n >= 13 * d THEN <<1, 1>>
                           ELSE IF 2 * n >= d THEN <<4, 5>>
                           ELSE <<0, 1>>

C12_Witness ==
    /\ Returned
    /\ Gt(SumOfWeights, Num(1))
    /\ \E k \in Rows :
          LET row == result.df[k]
          IN  /\ row.slope_signal = <<1, 1>>
              /\ Defined(row.momentum_signal)
              /\ Gt(row.composite_signal, Num(1))
              /\ row.composite_signal[1] * SumOfWeights[2]
                     <= SumOfWeights[1] * row.composite_signal[2]
              /\ row.position = <<7, 5>>

ConstantClose == \A k \in 1..Len(data) : data[k].close = data[1].close

\* C13: on a series whose close is the same at every bar, every returned
\* row has RSI, slope_signal, momentum_signal and composite_signal
\* undefined.
C13_ConstantCloseUndefined ==
    (Returned /\ ConstantClose) =>
        \A k \in Rows :
            LET row == result.df[k]
            IN  /\ IsNaN(row.RSI)
                /\ IsNaN(row.slope_signal)
                /\ IsNaN(row.momentum_signal)
                /\ IsNaN(row.composite_signal)

C13_Witness ==
    /\ Returned /\ ConstantClose
    /\ \E k \in Rows :
          /\ k > config.rsi_period
          /\ k >= NormWindow
          /\ \A j \in (k - NormWindow + 1)..k :
                 result.df[j].MA_slope = <<0, 1>>
          /\ IsNaN(result.df[k].RSI)
          /\ IsNaN(result.df[k].slope_signal)

\* the rsi_period deltas that end at row k (rows k - rsi_period + 1 .. k,
\* each against the row before it) hold no fall / hold a rise
NoLossAt(k) ==
    \A j \in (k - config.rsi_period + 1)..k :
        LET now == result.df[j].close
            before == result.df[j - 1].close
        IN  now[1] * before[2] >= before[1] * now[2]

GainAt(k) ==
    \E j \in (k - config.rsi_period + 1)..k :
        LET now == result.df[j].close
            before == result.df[j - 1].close
        IN  now[1] * before[2] > before[1] * now[2]

C15_WindowsNeedFullHistory ==
    Returned =>
        \A k \in Rows :
            LET row == result.df[k]
            IN  /\ k < config.ma_long => IsNaN(row.MA_long)
                /\ k < config.ma_short => IsNaN(row.MA_short)
                /\ k <= config.rsi_period => IsNaN(row.RSI)
                /\ k <= config.atr_period => IsNaN(row.ATR)
                /\ k < config.ma_short + AdxLag + config.adx_period - 1 =>
                       IsNaN(row.ADX)

\* the rows calculate_stats keeps: those with a defined position
Retained == SelectSeq(result.df, LAMBDA row : row.position # <<0, 0>>)

\* the retained rows whose position differs from the retained row before
Changes ==
    { k \in 2..Len(Retained) :
        Retained[k].position # Retained[k - 1].position }

WithLastPosition(p) ==
    [result.df EXCEPT ![Len(result.df)].position = p]

\* C16: the equity curve is 1 on the first retained row and on every later
\* retained row t it is the previous value times 1 + (close[t] / close[t-1]
\* - 1) * position[t-1]; total_return is its last value minus 1 and stays
\* the same whatever defined position the last row carries.
C16_EquityRecurrence ==
    Returned =>
        LET equity == result.stats.equity_curve
            n == Len(Retained)
        IN  /\ Len(equity) = n
            /\ equity[1] = <<1, 1>>
            /\ \A t \in 2..n :
                   equity[t] =
                       Mul(equity[t - 1],
                           Add(Num(1),
                               Mul(Sub(Div(Retained[t].close,
                                           Retained[t - 1].close), Num(1)),
                                   Retained[t - 1].position)))
            /\ result.stats.total_return = Sub(equity[n], Num(1))
            /\ Defined(result.df[Len(result.df)].position) =>
                   \A p \in PositionInputs \ {NaN} :
                       calculate_stats(WithLastPosition(p)).total_return
                           = result.stats.total_return

C16_Witness ==
    /\ Returned
    /\ Len(Retained) >= 3 /\ Len(Retained) < Len(result.df)
    /\ Defined(result.df[Len(result.df)].position)
    /\ Retained[Len(Retained)].position # Retained[Len(Retained) - 1].position
    /\ Retained[Len(Retained)].close # Retained[Len(Retained) - 1].close
    /\ Gt(result.stats.total_return, Num(0))

\* C17: max_drawdown is never above 0; it is the smallest value of
\* equity[t] / equity[s] - 1 over the rows s <= t, which is the drawdown of
\* row t against the running maximum.
C17_DrawdownNonPositive ==
    Returned =>
        LET equity == result.stats.equity_curve
            dd == result.stats.max_drawdown
            n == Len(equity)
        IN  /\ dd[2] > 0 /\ dd[1] <= 0
            /\ \A t \in 1..n : \A u \in 1..t :
                   Le(dd, Sub(Div(equity[t], equity[u]), Num(1)))
            /\ \E t \in 1..n : \E u \in 1..t :
                   dd = Sub(Div(equity[t], equity[u]), Num(1))

C17_Witness ==
    /\ Returned
    /\ Lt(result.stats.max_drawdown, Num(0))
    /\ Gt(result.stats.total_return, Num(0))

\* C18: trade_count is the number of retained rows whose position differs
\* from the retained row before them; the first retained row is not one.
C18_TradeCount ==
    Returned => result.stats.trade_count = Cardinality(Changes)

C18_Witness ==
    /\ Returned
    /\ Retained[1].position # <<0, 1>>
    /\ result.stats.trade_count = 1
    /\ \E k \in 2..(Len(result.df) - 1) :
          /\ IsNaN(result.df[k].position)
          /\ result.df[k - 1].position = result.df[k + 1].position
          /\ Defined(result.df[k - 1].position)

\* the single step: the rows with a defined composite_signal are the last
\* rows of the series, those before row s sit in one tier below 0.75 and
\* those from row s on lie in [0.75, 0.9)
SingleStepUpAt(s) ==
    /\ s \in 2..Len(result.df)
    /\ Defined(result.df[s - 1].composite_signal)
    /\ \A k \in 1..(s - 1) :
           LET row == result.df[k]
           IN  Defined(row.composite_signal) =>
                   /\ Defined(result.df[k + 1].composite_signal)
                   /\ Lt(row.composite_signal, Rat(3, 4))
                   /\ row.position = result.df[s - 1].position
    /\ \A k \in s..Len(result.df) :
           /\ Ge(result.df[k].composite_signal, Rat(3, 4))
           /\ Lt(result.df[k].composite_signal, Rat(9, 10))

\* C19: when the composite_signal of a run makes such a single step,
\* trade_count is 1, the position of the step row is 1.2 and no row that
\* follows a warm-up row (undefined composite_signal) changes the position.
C19_SingleStepOneTrade ==
    Returned =>
        \A s \in Rows :
            SingleStepUpAt(s) =>
                /\ result.stats.trade_count = 1
                /\ result.df[s].position = <<6, 5>>
                /\ \A k \in 2..(s - 1) :
                       IsNaN(result.df[k - 1].composite_signal) =>
                           result.df[k].position = result.df[k - 1].position

\* a win by the bar after the change row / by the next change row
WinsByNextBar ==
    { k \in Changes :
        /\ k < Len(Retained)
        /\ LET now == Retained[k].close
               next == Retained[k + 1].close
           IN  \/ Retained[k].position[1] > 0
                  /\ next[1] * now[2] > now[1] * next[2]
               \/ Retained[k].position[1] = 0
                  /\ next[1] * now[2] < now[1] * next[2] }

WinsByNextChange ==
    { k \in Changes :
        \E m \in Changes :
            /\ m > k
            /\ \A j \in Changes : j > k => j >= m
            /\ LET now == Retained[k].close
                   next == Retained[m].close
               IN  \/ Retained[k].position[1] > 0
                      /\ next[1] * now[2] > now[1] * next[2]
                   \/ Retained[k].position[1] = 0
                      /\ next[1] * now[2] < now[1] * next[2] }

\* C20 as stated: win_rate is undefined with fewer than 2 change rows and
\* otherwise the share of change rows that win by the close of the bar
\* right after them.
C20_WinRateNextBar ==
    Returned =>
        result.stats.win_rate =
            IF Cardinality(Changes) < 2 THEN <<0, 0>>
            ELSE Rat(Cardinality(WinsByNextBar), Cardinality(Changes))

\* C20: win_rate is undefined with fewer than 2 change rows and otherwise
\* the share of change rows that win by the close of the next change row;
\* the last change row has no next one and is never a win.
C20_WinRateNextChange ==
    Returned =>
        result.stats.win_rate =
            IF Cardinality(Changes) < 2 THEN <<0, 0>>
            ELSE Rat(Cardinality(WinsByNextChange), Cardinality(Changes))

C20_Witness ==
    /\ Returned
    /\ Cardinality(Changes) >= 2
    /\ Gt(result.stats.win_rate, Num(0))
    /\ WinsByNextChange # WinsByNextBar
    /\ \E k \in WinsByNextChange : Retained[k].position = <<0, 1>>

\* C21: every run_strategy call on a non-empty series with strictly
\* increasing dates returns a frame of the same length and the statistics
\* instead of raising, a single-bar series included.
C21_RunCompletes ==
    (result.status # "none" /\ Len(data) >= 1) =>
        (result.status = "ok" /\ Len(result.df) = Len(data))

\* C22: run_strategy and get_latest_signal called with an empty series
\* raise and return nothing.
C22_EmptyInputRaises ==
    (call.method \in {"run_strategy", "get_latest_signal"}
        /\ call.before = <<>>) =>
            (call.status = "error" /\ call.ret = <<>>)

C22_Witness ==
    /\ call.method = "get_latest_signal" /\ call.before = <<>>
    /\ call.calls = 2
    /\ call.status = "error"

\* C23 as stated: run_strategy called with a series whose dates are not
\* strictly increasing raises.
C23_UnsortedRejected ==
    (call.method = "run_strategy" /\ ~StrictlyIncreasing(call.before)) =>
        call.status = "error"

\* the bar a row was made from
BarOf(row) ==
    [date |-> row.date, close |-> row.close,
     high |-> row.high, low |-> row.low]

\* C23: run_strategy called with a series whose dates are out of order or
\* repeated computes on the rows sorted by date: it returns the same bars
\* in non-decreasing date order, and raises only when all dates coincide
\* (the span of the sorted series is 0 days).
C23_UnsortedSorted ==
    (call.method = "run_strategy" /\ ~StrictlyIncreasing(call.before)) =>
        LET input == call.before
            n == Len(input)
        IN  /\ call.status = "error" <=>
                   \A k \in 1..n : input[k].date = input[1].date
            /\ call.status = "ok" =>
                   LET df == call.ret.df
                   IN  /\ Len(df) = n
                       /\ \A k \in 2..n : df[k - 1].date <= df[k].date
                       /\ \A k \in 1..n :
                              Cardinality({j \in 1..n :
                                              BarOf(df[j]) = input[k]})
                              = Cardinality({j \in 1..n :
                                               input[j] = input[k]})

C23_Witness ==
    /\ call.method = "run_strategy" /\ call.status = "ok"
    /\ Len(call.before) = 3
    /\ call.before[3].date < call.before[2].date
    /\ call.ret.df[2].date < call.ret.df[3].date
    /\ call.ret.df[2].close # call.ret.df[3].close

\* C24: after a call of calculate_indicators, generate_signals,
\* run_strategy, calculate_stats or get_latest_signal the frame passed to
\* it has the rows, columns and values it had before the call.
C24_InputUnchanged ==
    call.method # "none" =>
        /\ call.after = call.before
        /\ call.method \in {"calculate_indicators", "run_strategy",
                             "get_latest_signal"} => data = call.before

C24_Witness ==
    /\ call.method = "generate_signals"
    /\ Len(call.before) = MaxApiLen
    /\ call.after = call.before
    /\ "composite_signal" \notin DOMAIN call.before[1]
    /\ Defined(call.ret[Len(call.ret)].composite_signal)
    /\ "MA_slope" \notin DOMAIN data[1]

C26_LatestSignal ==
    (call.method = "get_latest_signal" /\ call.status = "ok"
        /\ call.seen # <<>>) =>
        LET last == call.seen.df[Len(call.seen.df)]
            sig == call.ret
        IN  /\ sig.date = last.date
            /\ sig.close = last.close
            /\ sig.signal_value = last.composite_signal
            /\ sig.position = last.position
            /\ sig.stop_loss = last.stop_loss
            /\ sig.ma_long = last.MA_long
            /\ sig.ma_short = last.MA_short
            /\ sig.rsi = last.RSI
            /\ sig.macd = last.MACD
            /\ sig.adx = last.ADX
            /\ sig.stats = call.seen.stats
            /\ sig.signal_type =
                   IF last.position = <<7, 5>> THEN "very_strong_buy"
                   ELSE IF last.position = <<6, 5>> THEN "strong_buy"
                   ELSE IF last.position = <<1, 1>> THEN "buy"
                   ELSE IF last.position = <<4, 5>> THEN "weak_buy"
                   ELSE IF last.position = <<0, 1>> THEN "sell"
                   ELSE "none"

C26_Witness ==
    /\ call.method = "get_latest_signal" /\ call.status = "ok"
    /\ call.seen # <<>>
    /\ call.ret.position = <<7, 5>>
    /\ call.ret.signal_type = "very_strong_buy"
    /\ Defined(call.ret.stop_loss)


\* C30: when a period entry of the [Strategy] section parses to a value
\* <= 0 the configuration load_config returns holds that period's default,
\* so every period of the returned configuration is a positive integer.
ParsesNonPositive(entry) ==
    /\ entry.raw.kind = "number"
    /\ int_of_float(entry.raw.value) <= 0

C30_PeriodsPositive ==
    called =>
        /\ \A key \in int_params : config[key] > 0
        /\ \A k \in DOMAIN config_file :
              ParsesNonPositive(config_file[k]) =>
                  config[config_file[k].key] = period_defaults[config_file[k].key]


\* C27: after any sequence of runs of main() the position history file
\* holds at most one record per date.
C27_OneRecordPerDate ==
    \A i, j \in DOMAIN main.history :
        main.history[i].date = main.history[j].date => i = j

\* C28: the action of the signal report compares the latest position with
\* the position recorded before this run's history update: buy or add when
\* it is greater, sell or reduce when it is smaller, hold only when equal.
C28_ReportAgainstRecorded ==
    (main.report_done /\ Defined(main.recorded)) =>
        /\ Gt(main.latest_signal.position, main.recorded) =>
              main.action \in {"buy", "add"}
        /\ Lt(main.latest_signal.position, main.recorded) =>
              main.action \in {"sell", "reduce"}
        /\ main.action = "hold" =>
              main.latest_signal.position = main.recorded

\* C29: the signal email is sent only if --no-email was not given, the
\* process is not in GitHub Actions, EmailNotifier was imported and sender,
\* password and recipient are all non-empty, and only after the strategy
\* has run and the report and chart steps have been attempted.
C29_SignalEmailGuarded ==
    main.signal_email_sent =>
        /\ ~main.no_email
        /\ ~main.github_actions
        /\ main.EmailNotifier = "class"
        /\ main.email_sender
        /\ main.email_password
        /\ main.email_recipient
        /\ main.strategy_ran
        /\ main.report_done
        /\ main.chart_attempted

C29_Witness ==
    /\ main.pc = "done"
    /\ main.signal_email_sent
    /\ main.runs = 2

=============================================================================
